---- MODULE Spec2Model ----
(***************************************************************************)
(* A model of tmdb_dataset_builder.py (class TMDBDatasetBuilder): the      *)
(* output directory (movies.json, genres.json, <id>/movie.json and the     *)
(* still_<k>.webp files), the dataset build loop, the maintenance passes   *)
(* (slug backfill, missing-image sweep, deletion list) and the pure        *)
(* helpers (generate_slug, get_top_movies, get_movie_images).              *)
(*                                                                         *)
(* Strings the code treats character by character (titles, slugs) are      *)
(* sequences of one-character strings.  The external collaborators (the    *)
(* HTTP API, the image codec, the operator at the prompt) are inputs drawn *)
(* with \E from bounded sets.                                              *)
(***************************************************************************)
EXTENDS Integers, Sequences, FiniteSets, TLC

VARIABLES
    dirs,        \* dirs[id]: the directory <output_dir>/<id> exists
    movieJson,   \* movieJson[id]: the record in <id>/movie.json, NoFile when absent
    stills,      \* stills[id]: the k for which <id>/still_<k>.webp exists
    moviesJson,  \* the aggregate file movies.json: [exists, data]
    genresJson,  \* genres.json exists
    pc,          \* "idle", or "build" inside build_dataset's loop; "call"/"done" for the pure helpers
    listing,     \* build_dataset: movies, the result of get_top_movies (kept after the run)
    idx,         \* build_dataset: the number of listing entries processed so far
    dataset,     \* build_dataset: the in-memory collection
    lastOp,      \* the operation that ran last, "building" inside build_dataset
    downloaded,  \* history: download_and_convert_image was called in this re-run
    failed,      \* history: a page, image-descriptor fetch or download failed in this run
    resume,      \* history: this run re-runs the previous listing on a fully materialized directory
    aggBefore,   \* history: movies.json as it was when the run started
    built,       \* history: a build_dataset run has completed (listing is its listing)
    delReport,   \* process_delete_list: the counters it prints
    fin,         \* the argument of the pure helper called on its own
    fout         \* its result

vars == <<dirs, movieJson, stills, moviesJson, genresJson, pc, listing, idx, dataset,
          lastOp, downloaded, failed, resume, aggBefore, built, delReport, fin, fout>>

diskVars == <<dirs, movieJson, stills, moviesJson, genresJson>>
runVars == <<listing, idx, dataset, downloaded, failed, resume, aggBefore, built>>
helperVars == <<fin, fout>>

----------------------------------------------------------------------------
(* Bounds of the model *)

\* the longest title given to generate_slug
MaxTitleLen == 4
\* the most backdrops an image-descriptor response holds
MaxBackdrops == 4
\* the largest total_movies asked of get_top_movies on its own
MaxTotal == 41
\* the largest total_movies asked of build_dataset in the full model
MaxTotalMovies == 2
\* the most images a record of the initial dataset lists
MaxInitImages == 1
\* the same, where only the maintenance passes run
MaxListedImages == 2
\* the longest deletion list
MaxDelete == 2
\* the periodic-save model runs listings of up to MaxPeriods * SavePeriod + 1 entries
MaxPeriods == 2

(* Program constants *)

\* pages_needed = (total_movies // 20) + 1
PageSize == 20
\* stills = backdrops with width >= 1920
MinWidth == 1920
\* sorted_stills[:3]
MaxStills == 3
\* if idx % 50 == 0: save_dataset
SavePeriod == 50

Min(a, b) == IF a < b THEN a ELSE b

----------------------------------------------------------------------------
(* generate_slug *)

\* the characters titles are made of in the model
TitleChars == {"A", "b", "1", " ", "-", "!"}

\* str.lower(), on the model's characters
Lower(c) == IF c = "A" THEN "a" ELSE IF c = "B" THEN "b" ELSE c

\* the class [a-z0-9\-] of the first re.sub, on the model's characters
SlugChars == {"a", "b", "1", "-"}

\* re.sub(r'-+', '-', s): every run of hyphens becomes one hyphen
RECURSIVE CollapseHyphens(_)
CollapseHyphens(s) ==
    IF Len(s) <= 1 THEN s
    ELSE IF s[1] = "-" /\ s[2] = "-" THEN CollapseHyphens(Tail(s))
    ELSE <<s[1]>> \o CollapseHyphens(Tail(s))

\* s.strip('-'): leading and trailing hyphens removed
RECURSIVE StripHyphens(_)
StripHyphens(s) ==
    IF s = <<>> THEN s
    ELSE IF s[1] = "-" THEN StripHyphens(Tail(s))
    ELSE IF s[Len(s)] = "-" THEN StripHyphens(SubSeq(s, 1, Len(s) - 1))
    ELSE s

\* a slip: the final strip('-') left out
GenerateSlugNoStrip(title) ==
    LET lowered == [i \in 1..Len(title) |-> Lower(title[i])]
        hyphened == [i \in 1..Len(lowered) |-> IF lowered[i] = " " THEN "-" ELSE lowered[i]]
        cleaned == SelectSeq(hyphened, LAMBDA c : c \in SlugChars)
    IN  CollapseHyphens(cleaned)

GenerateSlug(title) ==
    LET lowered == [i \in 1..Len(title) |-> Lower(title[i])]
        hyphened == [i \in 1..Len(lowered) |-> IF lowered[i] = " " THEN "-" ELSE lowered[i]]
        cleaned == SelectSeq(hyphened, LAMBDA c : c \in SlugChars)
        collapsed == CollapseHyphens(cleaned)
    IN  StripHyphens(collapsed)

\* all sequences over S of length at most n
SeqsUpTo(S, n) == UNION {[1..k -> S] : k \in 0..n}

\* movies.json absent
NoAggregate == [exists |-> FALSE, data |-> <<>>]

\* no deletion list processed yet
NoReport == [list |-> <<>>, raises |-> {}, attempted |-> 0, deleted |-> 0, failed |-> 0]

\* a helper called on its own: a fresh builder, nothing on disk, no run
HelperFrame ==
    /\ fout = <<>>
    /\ pc = "call"
    /\ dirs = <<>> /\ movieJson = <<>> /\ stills = <<>>
    /\ moviesJson = NoAggregate
    /\ genresJson = FALSE
    /\ listing = <<>> /\ idx = 0 /\ dataset = <<>>
    /\ lastOp = "none" /\ downloaded = FALSE /\ failed = FALSE /\ resume = FALSE
    /\ aggBefore = NoAggregate /\ built = FALSE
    /\ delReport = NoReport

SlugInit ==
    /\ fin \in SeqsUpTo(TitleChars, MaxTitleLen)
    /\ HelperFrame

\* generate_slug(title), and generate_slug of its result
CallGenerateSlug ==
    /\ pc = "call"
    /\ pc' = "done"
    /\ fout' = [once |-> GenerateSlug(fin), twice |-> GenerateSlug(GenerateSlug(fin))]
    /\ UNCHANGED <<diskVars, runVars, lastOp, delReport, fin>>

SlugSpec == SlugInit /\ [][CallGenerateSlug]_vars

\* ^[a-z0-9]+(-[a-z0-9]+)*$ or empty, on the model's characters
SlugWellFormed(s) ==
    /\ \A i \in 1..Len(s) : s[i] \in {"a", "b", "1", "-"}
    /\ s # <<>> => s[1] # "-" /\ s[Len(s)] # "-"
    /\ \A i \in 1..(Len(s) - 1) : ~(s[i] = "-" /\ s[i + 1] = "-")

\* C9: generate_slug is idempotent, and its result is empty or lowercase
\* letters and digits separated by single hyphens, with no leading or
\* trailing hyphen.
C9_SlugIdempotentWellFormed ==
    pc = "done" =>
        /\ fout.twice = fout.once
        /\ SlugWellFormed(fout.once)

\* a title whose slug needed every step: lowercasing, a space, a removed
\* character, a leading hyphen
C9_Witness ==
    /\ pc = "done"
    /\ fin = <<"-", "A", " ", "!">>
    /\ fout.once = <<"a">>

----------------------------------------------------------------------------
(* get_movie_images *)

\* requests.get / raise_for_status / response.json() raised
FetchFailed == [ok |-> FALSE, backdrops |-> <<>>]

Widths == {MinWidth - 1, MinWidth}
Votes == {0, 1, 2}

\* the image-descriptor responses of the API: a failure, or up to n backdrops;
\* the file_path of a backdrop is its position in the response
ImageResponses(n) ==
    {FetchFailed} \cup
    UNION {{[ok |-> TRUE,
             backdrops |-> [i \in 1..k |->
                 [file_path |-> i, width |-> w[i], vote_average |-> v[i]]]] :
            w \in [1..k -> Widths], v \in [1..k -> Votes]} : k \in 0..n}

\* x placed in s (sorted by descending vote_average) behind every element
\* whose vote_average is not lower: sorted() is stable
RECURSIVE InsertByVote(_, _)
InsertByVote(x, s) ==
    IF s = <<>> THEN <<x>>
    ELSE IF s[1].vote_average >= x.vote_average
         THEN <<s[1]>> \o InsertByVote(x, Tail(s))
         ELSE <<x>> \o s

\* sorted(s, key=lambda x: -x.get('vote_average', 0))
RECURSIVE SortedByVote(_)
SortedByVote(s) ==
    IF s = <<>> THEN <<>>
    ELSE InsertByVote(s[Len(s)], SortedByVote(SubSeq(s, 1, Len(s) - 1)))

\* a slip: width > 1920 for width >= 1920
GetMovieImagesStrict(resp) ==
    IF ~resp.ok THEN <<>>
    ELSE LET backdrops == resp.backdrops
             hires == SelectSeq(backdrops, LAMBDA img : img.width > MinWidth)
             sorted_stills == SortedByVote(IF hires # <<>> THEN hires ELSE backdrops)
             top == SubSeq(sorted_stills, 1, Min(MaxStills, Len(sorted_stills)))
         IN  [i \in 1..Len(top) |-> top[i].file_path]

GetMovieImages(resp) ==
    IF ~resp.ok THEN <<>>
    ELSE LET backdrops == resp.backdrops
             hires == SelectSeq(backdrops, LAMBDA img : img.width >= MinWidth)
             sorted_stills == SortedByVote(IF hires # <<>> THEN hires ELSE backdrops)
             top == SubSeq(sorted_stills, 1, Min(MaxStills, Len(sorted_stills)))
         IN  [i \in 1..Len(top) |-> top[i].file_path]

ImagesInit ==
    /\ fin \in ImageResponses(MaxBackdrops)
    /\ HelperFrame

CallGetMovieImages ==
    /\ pc = "call"
    /\ pc' = "done"
    /\ fout' = GetMovieImages(fin)
    /\ UNCHANGED <<diskVars, runVars, lastOp, delReport, fin>>

ImagesSpec == ImagesInit /\ [][CallGetMovieImages]_vars

\* C7: get_movie_images ranks the descriptors of width >= 1920 when there is
\* one, the whole list otherwise, by descending vote_average, and returns the
\* file paths of the first 3 (all when fewer, none when there are none); it
\* returns the empty list when the fetch fails.
C7_ImageSelection ==
    pc = "done" =>
        IF ~fin.ok THEN fout = <<>>
        ELSE LET b == fin.backdrops
                 hi == {i \in 1..Len(b) : b[i].width >= 1920}
                 pool == IF hi # {} THEN hi ELSE 1..Len(b)
                 k == IF Cardinality(pool) < 3 THEN Cardinality(pool) ELSE 3
             IN  /\ Len(fout) = k
                 /\ \A i \in 1..k : fout[i] \in pool
                 /\ \A i, j \in 1..k : i # j => fout[i] # fout[j]
                 /\ \A i, j \in 1..k :
                        i < j => b[fout[i]].vote_average >= b[fout[j]].vote_average
                 /\ \A p \in pool : \A i \in 1..k :
                        (\A j \in 1..k : fout[j] # p)
                            => b[fout[i]].vote_average >= b[p].vote_average

\* four backdrops, three of them of width 1920 or more with different scores,
\* and the low one scoring highest: the result is the wide ones, best first
C7_Witness ==
    /\ pc = "done"
    /\ fin.ok
    /\ Len(fin.backdrops) = 4
    /\ fin.backdrops[1].width < MinWidth /\ fin.backdrops[1].vote_average = 2
    /\ \A i \in 2..4 : fin.backdrops[i].width = MinWidth
    /\ fin.backdrops[2].vote_average = 0
    /\ fin.backdrops[3].vote_average = 2
    /\ fin.backdrops[4].vote_average = 1
    /\ fout = <<3, 4, 2>>

----------------------------------------------------------------------------
(* get_top_movies *)

\* pages_needed = (total_movies // 20) + 1
PagesNeeded(total_movies) == (total_movies \div PageSize) + 1

\* a page of the listing that could not be fetched
PageFailed == [ok |-> FALSE, results |-> <<>>]

\* a slip: the accumulated list returned without the final [:total_movies]
GetTopMoviesNoTruncate(total_movies, pages) ==
    LET pages_needed == PagesNeeded(total_movies)
    IN  LET RECURSIVE Loop(_, _)
            Loop(page, movies) ==
                IF page > pages_needed THEN movies
                ELSE IF ~pages[page].ok THEN Loop(page + 1, movies)
                ELSE LET extended == movies \o pages[page].results
                     IN  IF Len(extended) >= total_movies THEN extended
                         ELSE Loop(page + 1, extended)
        IN  Loop(1, <<>>)

\* get_top_movies(total_movies), pages[p] being the API's answer for page p
GetTopMovies(total_movies, pages) ==
    LET pages_needed == PagesNeeded(total_movies)
    IN  LET RECURSIVE Loop(_, _)
            Loop(page, movies) ==
                IF page > pages_needed THEN movies
                ELSE IF ~pages[page].ok THEN Loop(page + 1, movies)
                ELSE LET extended == movies \o pages[page].results
                     IN  IF Len(extended) >= total_movies THEN extended
                         ELSE Loop(page + 1, extended)
            movies == Loop(1, <<>>)
        IN  SubSeq(movies, 1, Min(total_movies, Len(movies)))

\* a page of n entries, the ids 1 and 2 in turn, starting with first
AlternatingPage(n, first) ==
    [ok |-> TRUE, results |-> [k \in 1..n |-> IF k % 2 = 1 THEN first ELSE 3 - first]]

\* the answers of the listing endpoint: a failure, an empty page, a short
\* page, a full page
PageResponses ==
    {PageFailed, AlternatingPage(0, 1)} \cup
    {AlternatingPage(n, first) : n \in {1, PageSize}, first \in {1, 2}}

TopInit ==
    /\ \E total \in 0..MaxTotal :
         fin \in [total_movies : {total}, pages : [1..PagesNeeded(total) -> PageResponses]]
    /\ HelperFrame

CallGetTopMovies ==
    /\ pc = "call"
    /\ pc' = "done"
    /\ fout' = GetTopMovies(fin.total_movies, fin.pages)
    /\ UNCHANGED <<diskVars, runVars, lastOp, delReport, fin>>

TopSpec == TopInit /\ [][CallGetTopMovies]_vars

\* the results of the pages that were fetched successfully, in page order
RECURSIVE Accumulated(_, _)
Accumulated(pages, upTo) ==
    IF upTo = 0 THEN <<>>
    ELSE Accumulated(pages, upTo - 1) \o
         (IF pages[upTo].ok THEN pages[upTo].results ELSE <<>>)

\* C8: get_top_movies(N) returns at most N items, and they are the first
\* items of the successfully fetched pages' results concatenated in page
\* order, nothing reordered or deduplicated, failed pages contributing
\* nothing.
C8_TopMoviesPrefix ==
    pc = "done" =>
        LET all == Accumulated(fin.pages, PagesNeeded(fin.total_movies))
        IN  /\ Len(fout) <= fin.total_movies
            /\ Len(fout) <= Len(all)
            /\ \A i \in 1..Len(fout) : fout[i] = all[i]
            /\ Len(fout) < fin.total_movies => fout = all

\* 21 asked, page 1 failed, page 2 full: the result is page 2's 20 entries,
\* both ids in it many times over
C8_Witness ==
    /\ pc = "done"
    /\ fin.total_movies = PageSize + 1
    /\ ~fin.pages[1].ok
    /\ fin.pages[2] = AlternatingPage(PageSize, 2)
    /\ fout = AlternatingPage(PageSize, 2).results

----------------------------------------------------------------------------
(* The output directory *)

\* the movie ids of the model
Ids == {1, 2}

\* the title the listing gives each movie
Title(id) == IF id = 1 THEN <<"A", " ", "b">> ELSE <<"b", "-", "1", "!">>

\* 'slug' not in movie_data
NoSlug == <<"(no slug)">>

\* <id>/movie.json does not exist
NoFile == [id |-> 0, title |-> <<>>, slug |-> NoSlug, images |-> <<>>]

\* still_<k>.webp for k in 0..2: build_dataset names the files by position
StillNames == 0..(MaxStills - 1)

\* movie_data as build_dataset assembles it.  year, overview, rating, genres
\* and original_title are copied from the listing entry and never read or
\* changed afterwards; they travel with the record and are left out.
Record(id, slug, images) == [id |-> id, title |-> Title(id), slug |-> slug, images |-> images]

\* a slip: every listed image reported valid without looking at the disk
VerifyAndCleanImagesNoCheck(files, image_list) == image_list

\* verify_and_clean_images(movie_dir, image_list), files being the stills
\* that exist in movie_dir
VerifyAndCleanImages(files, image_list) ==
    LET RECURSIVE Loop(_, _)
        Loop(i, valid_images) ==
            IF i > Len(image_list) THEN valid_images
            ELSE IF image_list[i] \in files
                 THEN Loop(i + 1, Append(valid_images, image_list[i]))
                 ELSE Loop(i + 1, valid_images)
    IN  Loop(1, <<>>)

\* movie_data with the slug added if 'slug' not in movie_data
WithSlug(movie_data) ==
    IF movie_data.slug = NoSlug
    THEN [movie_data EXCEPT !.slug = GenerateSlug(movie_data.title)]
    ELSE movie_data

\* the history of the last build_dataset run ends when another operation runs
ForgetRun ==
    /\ listing' = <<>> /\ idx' = 0 /\ dataset' = <<>>
    /\ downloaded' = FALSE /\ failed' = FALSE /\ resume' = FALSE
    /\ aggBefore' = NoAggregate /\ built' = FALSE

----------------------------------------------------------------------------
(* cleanup_missing_images *)

\* cleanup_missing_images on the aggregate agg, the per-item files mj, the
\* directories d and the stills st: the files it leaves
Sweep(agg, mj, d, st) ==
    LET RECURSIVE Loop(_, _)
        Loop(i, acc) ==
            IF i > Len(agg.data) THEN acc
            ELSE LET movie_data == agg.data[i]
                     movie_id == movie_data.id
                 IN  IF ~d[movie_id]
                     THEN Loop(i + 1, [acc EXCEPT !.movies_removed = @ + 1])
                     ELSE LET slugged == WithSlug(movie_data)
                              original_images == slugged.images
                              valid_images == VerifyAndCleanImages(st[movie_id], original_images)
                              changed == Len(valid_images) # Len(original_images)
                              cleaned == IF changed THEN [slugged EXCEPT !.images = valid_images]
                                         ELSE slugged
                          IN  Loop(i + 1,
                                [updated_dataset |->
                                     IF valid_images # <<>>
                                     THEN Append(acc.updated_dataset, cleaned)
                                     ELSE acc.updated_dataset,
                                 total_removed |-> acc.total_removed +
                                     (Len(original_images) - Len(valid_images)),
                                 movies_removed |-> acc.movies_removed +
                                     (IF valid_images # <<>> THEN 0 ELSE 1),
                                 movieJson |->
                                     IF changed /\ acc.movieJson[movie_id] # NoFile
                                     THEN [acc.movieJson EXCEPT ![movie_id] = cleaned]
                                     ELSE acc.movieJson])
        end == Loop(1, [updated_dataset |-> <<>>, total_removed |-> 0,
                        movies_removed |-> 0, movieJson |-> mj])
    IN  IF ~agg.exists THEN [moviesJson |-> agg, movieJson |-> mj]
        ELSE [moviesJson |-> IF end.total_removed > 0 \/ end.movies_removed > 0
                             THEN [exists |-> TRUE, data |-> end.updated_dataset]
                             ELSE agg,
              movieJson |-> end.movieJson]

CleanupMissingImages ==
    /\ pc = "idle"
    /\ LET swept == Sweep(moviesJson, movieJson, dirs, stills)
       IN  /\ moviesJson' = swept.moviesJson
           /\ movieJson' = swept.movieJson
    /\ lastOp' = "cleanup"
    /\ ForgetRun
    /\ UNCHANGED <<dirs, stills, genresJson, pc, delReport, helperVars>>

----------------------------------------------------------------------------
(* update_existing_slugs *)

\* a slip: the aggregate file is not saved after the per-item files
SlugBackfillNoSave(agg, mj) ==
    LET RECURSIVE Loop(_, _)
        Loop(i, acc) ==
            IF i > Len(agg.data) THEN acc
            ELSE LET movie_data == agg.data[i]
                     movie_id == movie_data.id
                 IN  IF acc.movieJson[movie_id] = NoFile
                     THEN Loop(i + 1, [acc EXCEPT !.dataset = Append(@, movie_data)])
                     ELSE IF movie_data.slug = NoSlug
                     THEN LET slugged == WithSlug(movie_data)
                          IN  Loop(i + 1,
                                [dataset |-> Append(acc.dataset, slugged),
                                 updated_count |-> acc.updated_count + 1,
                                 movieJson |-> [acc.movieJson EXCEPT ![movie_id] = slugged]])
                     ELSE Loop(i + 1, [acc EXCEPT !.dataset = Append(@, movie_data)])
        end == Loop(1, [dataset |-> <<>>, updated_count |-> 0, movieJson |-> mj])
    IN  IF ~agg.exists THEN [moviesJson |-> agg, movieJson |-> mj]
        ELSE [moviesJson |-> agg, movieJson |-> end.movieJson]

\* update_existing_slugs on the aggregate agg and the per-item files mj: the
\* files it leaves
SlugBackfill(agg, mj) ==
    LET RECURSIVE Loop(_, _)
        Loop(i, acc) ==
            IF i > Len(agg.data) THEN acc
            ELSE LET movie_data == agg.data[i]
                     movie_id == movie_data.id
                 IN  IF acc.movieJson[movie_id] = NoFile
                     THEN Loop(i + 1, [acc EXCEPT !.dataset = Append(@, movie_data)])
                     ELSE IF movie_data.slug = NoSlug
                     THEN LET slugged == WithSlug(movie_data)
                          IN  Loop(i + 1,
                                [dataset |-> Append(acc.dataset, slugged),
                                 updated_count |-> acc.updated_count + 1,
                                 movieJson |-> [acc.movieJson EXCEPT ![movie_id] = slugged]])
                     ELSE Loop(i + 1, [acc EXCEPT !.dataset = Append(@, movie_data)])
        end == Loop(1, [dataset |-> <<>>, updated_count |-> 0, movieJson |-> mj])
    IN  IF ~agg.exists THEN [moviesJson |-> agg, movieJson |-> mj]
        ELSE [moviesJson |-> IF end.updated_count > 0
                             THEN [exists |-> TRUE, data |-> end.dataset]
                             ELSE agg,
              movieJson |-> end.movieJson]

UpdateExistingSlugs ==
    /\ pc = "idle"
    /\ LET filled == SlugBackfill(moviesJson, movieJson)
       IN  /\ moviesJson' = filled.moviesJson
           /\ movieJson' = filled.movieJson
    /\ lastOp' = "slugs"
    /\ ForgetRun
    /\ UNCHANGED <<dirs, stills, genresJson, pc, delReport, helperVars>>

----------------------------------------------------------------------------
(* process_delete_list *)

\* the entries a deletion list may hold: movieId and filename (movieTitle is
\* only printed)
DeleteEntries == [movieId : Ids, filename : StillNames]

\* a slip: an error raised by unlink() ends the loop
DeleteLoopAbortOnError(delete_list, raises, st) ==
    LET RECURSIVE Loop(_, _)
        Loop(i, acc) ==
            IF i > Len(delete_list) THEN acc
            ELSE LET movie_id == delete_list[i].movieId
                     filename == delete_list[i].filename
                 IN  IF filename \in acc.stills[movie_id]
                     THEN IF i \in raises
                          THEN [acc EXCEPT !.failed_count = @ + 1, !.attempted = @ + 1]
                          ELSE Loop(i + 1,
                                 [acc EXCEPT !.stills[movie_id] = @ \ {filename},
                                             !.deleted_count = @ + 1,
                                             !.attempted = @ + 1])
                     ELSE Loop(i + 1, [acc EXCEPT !.failed_count = @ + 1, !.attempted = @ + 1])
    IN  Loop(1, [stills |-> st, deleted_count |-> 0, failed_count |-> 0, attempted |-> 0])

\* the deletion loop over delete_list, unlink() raising at the positions in
\* raises: the stills left and the counters
DeleteLoop(delete_list, raises, st) ==
    LET RECURSIVE Loop(_, _)
        Loop(i, acc) ==
            IF i > Len(delete_list) THEN acc
            ELSE LET movie_id == delete_list[i].movieId
                     filename == delete_list[i].filename
                 IN  IF filename \in acc.stills[movie_id]
                     THEN IF i \in raises
                          THEN Loop(i + 1, [acc EXCEPT !.failed_count = @ + 1,
                                                       !.attempted = @ + 1])
                          ELSE Loop(i + 1,
                                 [acc EXCEPT !.stills[movie_id] = @ \ {filename},
                                             !.deleted_count = @ + 1,
                                             !.attempted = @ + 1])
                     ELSE Loop(i + 1, [acc EXCEPT !.failed_count = @ + 1, !.attempted = @ + 1])
    IN  Loop(1, [stills |-> st, deleted_count |-> 0, failed_count |-> 0, attempted |-> 0])

\* process_delete_list on an existing list file, the operator answering
\* confirmed at the prompt
ProcessDeleteListWith(delete_list, raises, confirmed) ==
    /\ pc = "idle"
    /\ IF ~confirmed
       THEN /\ lastOp' = "delete_cancelled"
            /\ UNCHANGED <<diskVars, delReport>>
       ELSE LET end == DeleteLoop(delete_list, raises, stills)
                swept == Sweep(moviesJson, movieJson, dirs, end.stills)
            IN  /\ stills' = end.stills
                /\ moviesJson' = swept.moviesJson
                /\ movieJson' = swept.movieJson
                /\ delReport' = [list |-> delete_list, raises |-> raises,
                                 attempted |-> end.attempted,
                                 deleted |-> end.deleted_count, failed |-> end.failed_count]
                /\ lastOp' = "delete"
                /\ UNCHANGED <<dirs, genresJson>>
    /\ ForgetRun
    /\ UNCHANGED <<pc, helperVars>>

ProcessDeleteList ==
    \E delete_list \in SeqsUpTo(DeleteEntries, MaxDelete) :
        \E raises \in SUBSET (1..Len(delete_list)), confirmed \in BOOLEAN :
            ProcessDeleteListWith(delete_list, raises, confirmed)

----------------------------------------------------------------------------
(* The datasets the builder starts from *)

\* the image lists of a dataset's records: still_0 .. still_<n-1>
InitImageLists(most) == {[i \in 1..n |-> i - 1] : n \in 1..most}

\* the records of movie id: written by this version (with a slug) or by the
\* version before update_existing_slugs (without)
InitRecords(id, most) ==
    {Record(id, slug, images) : slug \in {NoSlug, GenerateSlug(Title(id))},
                                images \in InitImageLists(most)}

\* the states movie id may be in: never seen; its directory made and nothing
\* materialized; in the dataset, any of its stills since removed; in the
\* dataset, its directory since removed
InitItems(id, most) ==
    {[dir |-> FALSE, file |-> NoFile, stills |-> {}, listed |-> FALSE],
     [dir |-> TRUE, file |-> NoFile, stills |-> {}, listed |-> FALSE]}
    \cup {[dir |-> TRUE, file |-> r, stills |-> st, listed |-> TRUE] :
            r \in InitRecords(id, most), st \in SUBSET StillNames}
    \cup {[dir |-> FALSE, file |-> r, stills |-> {}, listed |-> TRUE] :
            r \in InitRecords(id, most)}

\* a consistent output directory: movies.json holds the records of the
\* movies in the dataset, each equal to its <id>/movie.json where that exists
DiskInit(most) ==
    \E item \in [Ids -> UNION {InitItems(id, most) : id \in Ids}] :
        /\ \A id \in Ids : item[id] \in InitItems(id, most)
        /\ \A id \in Ids : item[id].listed /\ item[id].dir =>
               \A k \in item[id].stills : \E i \in DOMAIN item[id].file.images :
                   item[id].file.images[i] = k
        /\ dirs = [id \in Ids |-> item[id].dir]
        /\ movieJson = [id \in Ids |-> IF item[id].dir THEN item[id].file ELSE NoFile]
        /\ stills = [id \in Ids |-> item[id].stills]
        /\ LET all == [i \in 1..2 |-> item[i].file]
               data == SelectSeq(all, LAMBDA r : r # NoFile)
           IN  moviesJson = IF data = <<>> THEN NoAggregate
                            ELSE [exists |-> TRUE, data |-> data]
        /\ genresJson = FALSE

\* no run yet
RunInit ==
    /\ pc = "idle"
    /\ listing = <<>> /\ idx = 0 /\ dataset = <<>>
    /\ lastOp = "none" /\ downloaded = FALSE /\ failed = FALSE /\ resume = FALSE
    /\ aggBefore = NoAggregate /\ built = FALSE
    /\ delReport = NoReport
    /\ fin = <<>> /\ fout = <<>>

Init == DiskInit(MaxInitImages) /\ RunInit

----------------------------------------------------------------------------
(* build_dataset *)

\* the answers of the listing endpoint inside a run of at most n movies:
\* a failure, or any page of at most n + 1 entries
RunPages(n) ==
    {PageFailed} \cup {[ok |-> TRUE, results |-> r] : r \in SeqsUpTo(Ids, n + 1)}

\* the answers of the image endpoint inside a run: a failure, or k backdrops
Backdrops(k) ==
    [ok |-> TRUE,
     backdrops |-> [i \in 1..k |->
         [file_path |-> i, width |-> MinWidth, vote_average |-> i % 3]]]

RunImageResponses == {FetchFailed} \cup {Backdrops(k) : k \in 0..(MaxStills + 1)}

\* every image of the movie.json of every listing entry is on disk
FullyMaterialized(movies) ==
    \A i \in DOMAIN movies :
        /\ dirs[movies[i]]
        /\ movieJson[movies[i]] # NoFile
        /\ \A k \in DOMAIN movieJson[movies[i]].images :
               movieJson[movies[i]].images[k] \in stills[movies[i]]

\* build_dataset up to its loop: fetch_genres (sys.exit(1) when it fails),
\* genres.json, get_top_movies
BuildStartWith(total_movies, genres_ok, pages) ==
    /\ pc = "idle"
    /\ IF ~genres_ok
       THEN /\ lastOp' = "build_aborted"
            /\ UNCHANGED <<diskVars, pc, runVars>>
       ELSE LET movies == GetTopMovies(total_movies, pages)
            IN  /\ genresJson' = TRUE
                /\ listing' = movies
                /\ idx' = 0
                /\ dataset' = <<>>
                /\ pc' = "build"
                /\ downloaded' = FALSE
                /\ failed' = \E p \in DOMAIN pages : ~pages[p].ok
                /\ lastOp' = "building"
                /\ resume' = (built /\ movies = listing /\ FullyMaterialized(movies))
                /\ aggBefore' = IF built /\ movies = listing /\ FullyMaterialized(movies)
                                THEN moviesJson ELSE NoAggregate
                /\ UNCHANGED <<dirs, movieJson, stills, moviesJson, built>>
    /\ UNCHANGED <<delReport, helperVars>>

BuildStart ==
    \E total_movies \in 0..MaxTotalMovies :
        \E pages \in [1..PagesNeeded(total_movies) -> RunPages(total_movies)] :
            \E genres_ok \in IF total_movies = 0 /\ ~pages[1].ok THEN BOOLEAN ELSE {TRUE} :
                BuildStartWith(total_movies, genres_ok, pages)

\* a slip: the entry is treated as new although its movie.json exists
IsNewEntryAlways(folder_existed, movie_json_exists) == TRUE

\* if not folder_existed or not movie_json_path.exists()
IsNewEntry(folder_existed, movie_json_exists) == ~folder_existed \/ ~movie_json_exists

\* if idx % 50 == 0, idx being the 1-based position in the listing
SaveDue(position) == position % SavePeriod = 0

\* a slip: a failed download propagates and ends the run
EntryAbortsOnDownloadFailure(attempted, ok) == \E k \in attempted : ~ok[k]

\* no failure inside the loop body leaves the loop: get_movie_images and
\* download_and_convert_image catch every exception
EntryAborts(attempted, ok) == FALSE

\* a slip: a still already on disk is not listed
DownloadedImagesFreshOnly(wanted, on_disk, ok) == SelectSeq(wanted, LAMBDA k : ok[k])

\* downloaded_images: of the stills wanted, in order, those already on disk
\* and those download_and_convert_image returned True for
DownloadedImages(wanted, on_disk, ok) ==
    SelectSeq(wanted, LAMBDA k : k \in on_disk \/ ok[k])

\* one iteration of the loop over the listing: image_response is the API's
\* answer to get_movie_images, ok[k] whether download_and_convert_image
\* succeeds for still_<k>.webp
BuildEntryWith(image_response, ok) ==
    /\ pc = "build"
    /\ idx < Len(listing)
    /\ LET position == idx + 1
           movie_id == listing[position]
           folder_existed == dirs[movie_id]
       IN  IF IsNewEntry(folder_existed, movieJson[movie_id] # NoFile)
           THEN LET image_paths == GetMovieImages(image_response)
                    wanted == [i \in 1..Len(image_paths) |-> i - 1]
                    attempted == {k \in 0..(Len(image_paths) - 1) : k \notin stills[movie_id]}
                    downloaded_images == DownloadedImages(wanted, stills[movie_id], ok)
                    movie_data == Record(movie_id, GenerateSlug(Title(movie_id)),
                                         downloaded_images)
                    materialized == image_paths # <<>> /\ downloaded_images # <<>>
                    new_dataset == IF materialized THEN Append(dataset, movie_data)
                                   ELSE dataset
                IN  IF EntryAborts(attempted, ok)
                    THEN /\ pc' = "idle"
                         /\ lastOp' = "build_aborted"
                         /\ dirs' = [dirs EXCEPT ![movie_id] = TRUE]
                         /\ UNCHANGED <<movieJson, stills, moviesJson, idx, dataset,
                                        downloaded, failed>>
                    ELSE /\ dirs' = [dirs EXCEPT ![movie_id] = TRUE]
                         /\ stills' = [stills EXCEPT ![movie_id] =
                                           @ \cup {k \in attempted : ok[k]}]
                         /\ movieJson' = IF materialized
                                         THEN [movieJson EXCEPT ![movie_id] = movie_data]
                                         ELSE movieJson
                         /\ dataset' = new_dataset
                         /\ moviesJson' =
                               IF materialized /\ SaveDue(position)
                               THEN [exists |-> TRUE, data |-> new_dataset]
                               ELSE moviesJson
                         /\ downloaded' = (downloaded \/ (resume /\ attempted # {}))
                         /\ failed' = (\/ failed
                                       \/ ~image_response.ok
                                       \/ \E k \in attempted : ~ok[k])
                         /\ idx' = position
                         /\ UNCHANGED <<pc, lastOp>>
           ELSE LET loaded == movieJson[movie_id]
                    slugged == WithSlug(loaded)
                    valid_images == VerifyAndCleanImages(stills[movie_id], slugged.images)
                    changed == Len(valid_images) # Len(slugged.images)
                    movie_data == IF changed THEN [slugged EXCEPT !.images = valid_images]
                                  ELSE slugged
                    materialized == valid_images # <<>>
                    new_dataset == IF materialized THEN Append(dataset, movie_data)
                                   ELSE dataset
                IN  /\ movieJson' = [movieJson EXCEPT ![movie_id] = movie_data]
                    /\ dataset' = new_dataset
                    /\ moviesJson' =
                          IF materialized /\ SaveDue(position)
                          THEN [exists |-> TRUE, data |-> new_dataset]
                          ELSE moviesJson
                    /\ idx' = position
                    /\ UNCHANGED <<dirs, stills, downloaded, failed, pc, lastOp>>
    /\ UNCHANGED <<genresJson, listing, resume, aggBefore, built, delReport>>

\* the API and the codec are reached for a new entry only
NextEntryIsNew ==
    /\ pc = "build"
    /\ idx < Len(listing)
    /\ IsNewEntry(dirs[listing[idx + 1]], movieJson[listing[idx + 1]] # NoFile)

\* the downloads that may succeed: those of the stills wanted and not on disk
PossibleDownloads(image_response) ==
    IF NextEntryIsNew
    THEN {k \in StillNames : /\ k < Len(GetMovieImages(image_response))
                             /\ k \notin stills[listing[idx + 1]]}
    ELSE {}

BuildEntry ==
    /\ \E image_response \in IF NextEntryIsNew THEN RunImageResponses ELSE {FetchFailed} :
           \E succeed \in SUBSET PossibleDownloads(image_response) :
               BuildEntryWith(image_response, [k \in StillNames |-> k \in succeed])
    /\ UNCHANGED helperVars

\* the same iteration, the call to get_movie_images it made kept: fin its
\* answer from the API, fout the paths it returned (no call, and nothing
\* returned, for an existing entry)
BuildEntryRecorded ==
    \E image_response \in IF NextEntryIsNew THEN RunImageResponses ELSE {FetchFailed} :
        \E succeed \in SUBSET PossibleDownloads(image_response) :
            /\ BuildEntryWith(image_response, [k \in StillNames |-> k \in succeed])
            /\ fin' = image_response
            /\ fout' = GetMovieImages(image_response)

\* the final save_dataset(dataset) and the return
BuildFinish ==
    /\ pc = "build"
    /\ idx = Len(listing)
    /\ moviesJson' = [exists |-> TRUE, data |-> dataset]
    /\ pc' = "idle"
    /\ lastOp' = "build"
    /\ built' = TRUE
    /\ dataset' = <<>>
    /\ UNCHANGED <<dirs, movieJson, stills, genresJson, listing, idx, downloaded, failed,
                   resume, aggBefore, delReport, helperVars>>

----------------------------------------------------------------------------
(* The builder: any sequence of its entry points *)

Next ==
    \/ BuildStart
    \/ BuildEntry
    \/ BuildFinish
    \/ UpdateExistingSlugs
    \/ CleanupMissingImages

Spec == Init /\ [][Next]_vars

\* one run of build_dataset, on any dataset
BuildNext ==
    \/ lastOp = "none" /\ BuildStart
    \/ BuildEntry
    \/ BuildFinish

\* a dataset that holds movie 1 at most: movie 2 has never been seen
BuildInit ==
    /\ Init
    /\ ~dirs[2]
    /\ \A i \in DOMAIN moviesJson.data : moviesJson.data[i].id # 2

\* the loop is sequential code: once entered, its next step is taken
BuildSpec ==
    BuildInit /\ [][BuildNext]_vars /\ WF_vars(BuildEntry) /\ WF_vars(BuildFinish)

\* the maintenance passes alone, on any dataset
MaintenanceInit == DiskInit(MaxListedImages) /\ RunInit

MaintenanceNext ==
    \/ UpdateExistingSlugs
    \/ CleanupMissingImages

MaintenanceSpec == MaintenanceInit /\ [][MaintenanceNext]_vars

\* one deletion list applied to any dataset
DeleteNext == lastOp = "none" /\ ProcessDeleteList

DeleteSpec == Init /\ [][DeleteNext]_vars

\* a movie whose entry an interrupted run left half-done: its directory
\* made, any of its stills downloaded, its movie.json not yet written
InterruptedItems ==
    {[dir |-> TRUE, file |-> NoFile, stills |-> st, listed |-> FALSE] :
        st \in SUBSET StillNames}

\* the states of movie id when a run is resumed: movie 1 as in any dataset,
\* movie 2 not yet in the dataset, never seen or left half-done
ResumeItems(id) ==
    IF id = 1 THEN InitItems(id, MaxInitImages)
    ELSE {i \in InitItems(id, MaxInitImages) : ~i.listed} \cup InterruptedItems

\* the output directory a run is resumed on
ResumeInit ==
    /\ \E item \in [Ids -> UNION {ResumeItems(id) : id \in Ids}] :
           /\ \A id \in Ids : item[id] \in ResumeItems(id)
           /\ \A id \in Ids : item[id].listed /\ item[id].dir =>
                  \A k \in item[id].stills : \E i \in DOMAIN item[id].file.images :
                      item[id].file.images[i] = k
           /\ dirs = [id \in Ids |-> item[id].dir]
           /\ movieJson = [id \in Ids |-> IF item[id].dir THEN item[id].file ELSE NoFile]
           /\ stills = [id \in Ids |-> item[id].stills]
           /\ LET all == [i \in 1..2 |-> item[i].file]
                  data == SelectSeq(all, LAMBDA r : r # NoFile)
              IN  moviesJson = IF data = <<>> THEN NoAggregate
                               ELSE [exists |-> TRUE, data |-> data]
           /\ genresJson = FALSE
    /\ RunInit

\* one run of build_dataset on such a directory
ResumeNext ==
    \/ lastOp = "none" /\ BuildStart
    \/ BuildEntryRecorded
    \/ BuildFinish

ResumeSpec == ResumeInit /\ [][ResumeNext]_vars

\* a long run on an empty output directory: the listing of total_movies
\* entries holds movie 2 at every SavePeriod-th position and movie 1 elsewhere
SaveTotals == {k * SavePeriod + e : k \in 1..MaxPeriods, e \in {0, 1}}

SavePages(total_movies) ==
    [p \in 1..PagesNeeded(total_movies) |->
        [ok |-> TRUE,
         results |-> [i \in 1..PageSize |->
                         IF ((p - 1) * PageSize + i) % SavePeriod = 0 THEN 2 ELSE 1]]]

SaveInit ==
    /\ Init
    /\ \A id \in Ids : ~dirs[id]
    /\ ~moviesJson.exists

SaveStart ==
    /\ lastOp = "none"
    /\ \E total_movies \in SaveTotals :
           BuildStartWith(total_movies, TRUE, SavePages(total_movies))

\* the image endpoint fails or gives one backdrop, whose download succeeds
SaveEntry ==
    /\ \E image_response \in {FetchFailed, Backdrops(1)} :
           BuildEntryWith(image_response, [k \in StillNames |-> TRUE])
    /\ UNCHANGED helperVars

SaveNext ==
    \/ SaveStart
    \/ SaveEntry
    \/ BuildFinish

SaveSpec == SaveInit /\ [][SaveNext]_vars

----------------------------------------------------------------------------
(* Claims about sequences of operations *)

\* every record of movies.json whose <id>/movie.json exists equals it
Consistent ==
    \A i \in DOMAIN moviesJson.data :
        LET r == moviesJson.data[i]
        IN  movieJson[r.id] # NoFile => movieJson[r.id] = r

\* C2: after each of build_dataset, update_existing_slugs and
\* cleanup_missing_images, run in any order from a consistent state, every
\* record of movies.json whose <id>/movie.json exists is equal to it, slug
\* and images included.
C2_AggregateMatchesItems == pc = "idle" => Consistent

\* after a sweep that dropped movie 1, movies.json holds movie 2 with a slug
\* and 2/movie.json holds it without
C2_Witness ==
    /\ pc = "idle" /\ lastOp = "cleanup"
    /\ moviesJson = [exists |-> TRUE,
                     data |-> <<Record(2, GenerateSlug(Title(2)), <<0>>)>>]
    /\ movieJson[2] = Record(2, NoSlug, <<0>>)

\* movies.json after the run is movies.json before it, slugs filled in
SameAggregate ==
    /\ moviesJson.exists /\ aggBefore.exists
    /\ moviesJson.data = [i \in DOMAIN aggBefore.data |-> WithSlug(aggBefore.data[i])]

\* no id occurs twice
NoRepeats(movies) == \A i, j \in DOMAIN movies : i # j => movies[i] # movies[j]

\* C3 as stated: a re-run of build_dataset with the same listing, on a
\* directory where every listing entry has its directory, its movie.json
\* and every image that names, calls download_and_convert_image for nothing
\* and ends with movies.json as it was before the run, but for slugs added
\* to records that lacked one.
C3_ResumeIdempotent ==
    resume =>
        /\ ~downloaded
        /\ pc = "idle" /\ lastOp = "build" => SameAggregate

\* C3 amended: the same, for a listing in which no id occurs twice (a
\* listing that repeats an id skipped at its first occurrence and
\* materialized at a later one gains a record in the re-run); no download
\* is made in either case.
C3_ResumeIdempotentNoRepeats ==
    resume =>
        /\ ~downloaded
        /\ pc = "idle" /\ lastOp = "build" /\ NoRepeats(listing) => SameAggregate

\* a completed re-run of a listing of two movies, both materialized
C3_Witness ==
    /\ pc = "idle" /\ lastOp = "build" /\ resume
    /\ listing = <<2, 1>>
    /\ Len(moviesJson.data) = 2
    /\ moviesJson.data[1].id = 2 /\ moviesJson.data[2].id = 1
    /\ Len(moviesJson.data[1].images) = 3

\* C6: inside build_dataset's loop every step either processes the next
\* listing entry or, all entries processed, makes the final save and
\* returns, whatever page, image-descriptor fetch or download failed; a
\* run that entered the loop ends with the final save, every entry
\* processed; the run is aborted only by fetch_genres, before any entry is
\* processed and with nothing written.
C6_FailuresSkipOneUnit ==
    /\ (pc = "build") ~> (pc = "idle" /\ lastOp = "build" /\ idx = Len(listing))
    /\ [][(pc = "build" =>
              \/ pc' = "build" /\ idx' = idx + 1 /\ listing' = listing
              \/ /\ idx = Len(listing)
                 /\ pc' = "idle" /\ lastOp' = "build"
                 /\ moviesJson' = [exists |-> TRUE, data |-> dataset])
          /\ (lastOp' = "build_aborted" =>
                 /\ pc = "idle" /\ pc' = "idle"
                 /\ dirs' = dirs /\ movieJson' = movieJson /\ stills' = stills
                 /\ moviesJson' = moviesJson /\ genresJson' = genresJson)]_vars

\* a completed run over two entries: the first skipped (its directory made,
\* nothing materialized), the second materialized although the download of
\* its still_1 failed
C6_Witness ==
    /\ pc = "idle" /\ lastOp = "build" /\ failed
    /\ listing = <<1, 2>> /\ idx = 2
    /\ dirs[1] /\ movieJson[1] = NoFile
    /\ moviesJson = [exists |-> TRUE,
                     data |-> <<Record(2, GenerateSlug(Title(2)), <<0, 2>>)>>]

----------------------------------------------------------------------------
(* Claims about the maintenance passes *)

\* image_list restricted to the files that exist, in the same order
Restricted(image_list, files) == SelectSeq(image_list, LAMBDA k : k \in files)

\* the records the sweep keeps: directory present, a listed file present
KeptBySweep(data) ==
    SelectSeq(data, LAMBDA r : dirs[r.id] /\ Restricted(r.images, stills[r.id]) # <<>>)

\* C1: cleanup_missing_images leaves in movies.json the records whose
\* directory exists and one of whose listed files exists, in their order,
\* each with its images list restricted, in order, to the files that exist
\* in its directory; so every record left has an image and every image it
\* lists exists.
C1_SweepPostcondition ==
    [][lastOp' = "cleanup" /\ moviesJson.exists =>
          LET kept == KeptBySweep(moviesJson.data)
              after == moviesJson'.data
          IN  /\ moviesJson'.exists
              /\ Len(after) = Len(kept)
              /\ \A i \in DOMAIN kept :
                     /\ after[i].id = kept[i].id
                     /\ after[i].title = kept[i].title
                     /\ after[i].images = Restricted(kept[i].images, stills[kept[i].id])
              /\ \A i \in DOMAIN after :
                     /\ after[i].images # <<>>
                     /\ dirs'[after[i].id]
                     /\ \A k \in DOMAIN after[i].images :
                            after[i].images[k] \in stills'[after[i].id]]_vars

\* a sweep that kept movie 1 with still_1 of its two stills and dropped
\* movie 2, whose directory is gone
C1_Witness ==
    /\ lastOp = "cleanup"
    /\ ~dirs[2] /\ stills[1] = {1}
    /\ moviesJson = [exists |-> TRUE,
                     data |-> <<Record(1, GenerateSlug(Title(1)), <<1>>)>>]
    /\ movieJson[1] = Record(1, GenerateSlug(Title(1)), <<1>>)

\* C4 as stated: after update_existing_slugs every record of movies.json
\* has the slug generate_slug gives its title, and every record that lacked
\* one has been rewritten with it in <id>/movie.json and in movies.json.
C4_SlugBackfillAll ==
    [][lastOp' = "slugs" /\ moviesJson.exists =>
          /\ Len(moviesJson'.data) = Len(moviesJson.data)
          /\ \A i \in DOMAIN moviesJson.data :
                 LET before == moviesJson.data[i]
                     after == moviesJson'.data[i]
                 IN  /\ after = [before EXCEPT !.slug = GenerateSlug(before.title)]
                     /\ before.slug = NoSlug => movieJson'[before.id] = after]_vars

\* C4 amended: the same for every record whose <id>/movie.json exists; a
\* record whose movie.json is missing is left as it is, without a slug if
\* it had none.
C4_SlugBackfillWhereFileExists ==
    [][lastOp' = "slugs" /\ moviesJson.exists =>
          /\ Len(moviesJson'.data) = Len(moviesJson.data)
          /\ \A i \in DOMAIN moviesJson.data :
                 LET before == moviesJson.data[i]
                     after == moviesJson'.data[i]
                 IN  IF movieJson[before.id] # NoFile
                     THEN /\ after = [before EXCEPT !.slug = GenerateSlug(before.title)]
                          /\ before.slug = NoSlug => movieJson'[before.id] = after
                     ELSE /\ after = before
                          /\ movieJson'[before.id] = NoFile]_vars

\* a backfill that gave movie 1 its slug in both files and left movie 2,
\* whose directory is gone, without one
C4_Witness ==
    /\ lastOp = "slugs"
    /\ ~dirs[2]
    /\ moviesJson = [exists |-> TRUE,
                     data |-> <<Record(1, GenerateSlug(Title(1)), <<0, 1>>),
                                Record(2, NoSlug, <<0>>)>>]
    /\ movieJson[1] = Record(1, GenerateSlug(Title(1)), <<0, 1>>)

\* the files the deletion loop removed
Removed == {e \in DeleteEntries : e.filename \in stills[e.movieId] \ stills'[e.movieId]}

\* C5: a confirmed process_delete_list attempts every entry of the list: each
\* entry is counted once, as deleted or as failed/not found; the file of
\* every entry whose unlink() did not raise is gone, wherever in the list an
\* earlier entry failed or named a missing file, and no other file is
\* removed; then the sweep has run: every record of movies.json has its
\* directory, an image, and only images that exist.
C5_DeletionsIndependent ==
    [][lastOp' = "delete" =>
          LET delete_list == delReport'.list
          IN  /\ delReport'.attempted = Len(delete_list)
              /\ delReport'.deleted + delReport'.failed = Len(delete_list)
              /\ delReport'.deleted = Cardinality(Removed)
              /\ \A i \in DOMAIN delete_list :
                     i \notin delReport'.raises =>
                         delete_list[i].filename \notin stills'[delete_list[i].movieId]
              /\ \A e \in Removed : \E i \in DOMAIN delete_list : delete_list[i] = e
              /\ \A id \in Ids : stills'[id] \subseteq stills[id]
              /\ \A i \in DOMAIN moviesJson'.data :
                     LET r == moviesJson'.data[i]
                     IN  /\ dirs'[r.id]
                         /\ r.images # <<>>
                         /\ \A k \in DOMAIN r.images : r.images[k] \in stills'[r.id]]_vars

\* a list of two entries: the first names a file that does not exist, the
\* second the only still of movie 1, which is deleted; the sweep then dropped
\* movie 1 from movies.json
C5_Witness ==
    /\ lastOp = "delete"
    /\ delReport.list = <<[movieId |-> 2, filename |-> 2], [movieId |-> 1, filename |-> 0]>>
    /\ delReport.deleted = 1 /\ delReport.failed = 1
    /\ movieJson[1] # NoFile /\ stills[1] = {} /\ stills[2] = {0}
    /\ moviesJson.exists
    /\ \A i \in DOMAIN moviesJson.data : moviesJson.data[i].id = 2

----------------------------------------------------------------------------
(* Claims about the periodic save *)

\* C10: in build_dataset's loop the collection is saved to movies.json after
\* the entry at every position that is a multiple of 50, whether that entry
\* was materialized or skipped, and once more when the run ends.
C10_SaveEveryFiftieth ==
    [][pc = "build" =>
          /\ idx' = idx + 1 /\ idx' % SavePeriod = 0 =>
                 moviesJson' = [exists |-> TRUE, data |-> dataset']
          /\ pc' = "idle" =>
                 moviesJson' = [exists |-> TRUE, data |-> dataset]]_vars

\* position 50 passed with the 49 entries before it materialized and the
\* 50th skipped: no movies.json yet
C10_Witness ==
    /\ pc = "build" /\ idx = SavePeriod
    /\ Len(dataset) = SavePeriod - 1
    /\ ~moviesJson.exists

----------------------------------------------------------------------------
(* Claims about the collection build_dataset writes *)

\* the still names 0 .. n-1 given to n selected paths, those on disk in files
CandidatesOnDisk(n, files) == SelectSeq([i \in 1..n |-> i - 1], LAMBDA k : k \in files)

\* every record has its directory, an image, and only images that exist
RecordsBacked(data) ==
    \A i \in DOMAIN data :
        /\ dirs[data[i].id]
        /\ data[i].images # <<>>
        /\ \A k \in DOMAIN data[i].images : data[i].images[k] \in stills[data[i].id]

\* C11: build_dataset starts from an empty collection; each listing entry, in
\* listing order, is appended to it if and only if it ends with an image: a
\* new entry (no directory or no movie.json) with one of the selected
\* images, named still_<k> by its rank k, downloaded or already on disk; an
\* existing entry with one of the files its movie.json lists still present;
\* the record appended lists exactly those images in order and is the
\* entry's movie.json; an id met twice is appended twice; the final save
\* writes the collection as it is, and every image of every record of
\* movies.json then exists in the record's directory.
C11_AggregateIsMaterializedEntries ==
    /\ [](pc = "idle" /\ lastOp = "build" => moviesJson.exists /\ RecordsBacked(moviesJson.data))
    /\ [][/\ pc = "idle" /\ pc' = "build" => dataset' = <<>> /\ idx' = 0
          /\ pc = "build" /\ pc' = "build" =>
                 LET movie_id == listing[idx + 1]
                     is_new == ~dirs[movie_id] \/ movieJson[movie_id] = NoFile
                     images == IF is_new
                               THEN CandidatesOnDisk(Len(fout'), stills'[movie_id])
                               ELSE Restricted(movieJson[movie_id].images, stills[movie_id])
                 IN  /\ idx' = idx + 1
                     /\ listing' = listing
                     /\ \A id \in Ids : stills[id] \subseteq stills'[id]
                     /\ IF images # <<>>
                        THEN /\ Len(dataset') = Len(dataset) + 1
                             /\ SubSeq(dataset', 1, Len(dataset)) = dataset
                             /\ dataset'[Len(dataset')].id = movie_id
                             /\ dataset'[Len(dataset')].title = Title(movie_id)
                             /\ dataset'[Len(dataset')].images = images
                             /\ dataset'[Len(dataset')].slug = GenerateSlug(Title(movie_id))
                             /\ movieJson'[movie_id] = dataset'[Len(dataset')]
                        ELSE dataset' = dataset
          /\ pc = "build" /\ pc' = "idle" =>
                 /\ idx = Len(listing)
                 /\ moviesJson' = [exists |-> TRUE, data |-> dataset]]_vars

\* movie 2 listed twice on a directory where an interrupted run left its
\* still_1: the selector gave two paths, the download of still_0 failed, and
\* movies.json holds two records of movie 2, each with still_1 alone
C11_Witness ==
    /\ pc = "idle" /\ lastOp = "build"
    /\ listing = <<2, 2>>
    /\ fin = FetchFailed
    /\ stills[2] = {1}
    /\ moviesJson = [exists |-> TRUE,
                     data |-> <<Record(2, GenerateSlug(Title(2)), <<1>>),
                                Record(2, GenerateSlug(Title(2)), <<1>>)>>]

====
